---- MODULE Spec2Model ----
(***************************************************************************)
(* River 3 protobuf command encoder and message decoder                    *)
(* (custom_components/ecoflow_cloud/devices/internal/river3.py).           *)
(*                                                                         *)
(* Python integers are unbounded; values up to 2^32 and beyond occur       *)
(* (val & 0xFFFFFFFF, millisecond clocks).  An integer n is therefore held *)
(* as two limbs [hi, lo] with n = hi * 2^16 + lo, 0 <= lo < 2^16, and hi   *)
(* any integer (hi < 0 for a negative n, as in two's complement).          *)
(* Byte strings are sequences over 0..255; Python index i is TLA+ index    *)
(* i + 1.                                                                  *)
(***************************************************************************)
EXTENDS Integers, Sequences, FiniteSets, TLC

VARIABLES
    call,           \* the operation invoked last, with its arguments
    ret,            \* what that operation returned
    params,         \* self.data.params: the device's stored parameter data
    set_replies,    \* self.data: the log of set-reply messages
    get_replies     \* self.data: the log of get-reply messages

vars == <<call, ret, params, set_replies, get_replies>>

\* Python's None, and an optional argument that is given
None == [is_none |-> TRUE]

Some(x) == [is_none |-> FALSE, v |-> x]

(***************************************************************************)
(* Python integers as limb pairs                                           *)
(***************************************************************************)
Limb == 2^16

PyInt(n) == [hi |-> n \div Limb, lo |-> n % Limb]

\* val < 0
IsNeg(val) == val.hi < 0

\* val & 0xFFFFFFFF
And32(val) == [hi |-> val.hi % Limb, lo |-> val.lo]

\* val > 0x7F
Gt7F(val) == val.hi > 0 \/ (val.hi = 0 /\ val.lo > 127)

\* val & 0x7F
Low7(val) == val.lo % 128

\* val >> 7
Shr7(val) == [hi |-> val.hi \div 128, lo |-> (val.hi % 128) * 512 + (val.lo \div 128)]

\* val << 7
Shl7(val) == [hi |-> val.hi * 128 + (val.lo \div 512), lo |-> (val.lo % 512) * 128]

\* a | b for operands with no common set bit, which is a + b
OrDisjoint(a, b) ==
    [hi |-> a.hi + b.hi + ((a.lo + b.lo) \div Limb), lo |-> (a.lo + b.lo) % Limb]

(***************************************************************************)
(* Varint codec                                                            *)
(***************************************************************************)
RECURSIVE EncodeLoop(_, _)
\* the while loop of _encode_varint and the append after it
EncodeLoop(val, result) ==
    IF Gt7F(val)
    THEN EncodeLoop(Shr7(val), Append(result, Low7(val) + 128))
    ELSE Append(result, Low7(val))

RECURSIVE EncodeLoopNoFlag(_, _)
\* the loop with the | 0x80 of line 51 forgotten
EncodeLoopNoFlag(val, result) ==
    IF Gt7F(val)
    THEN EncodeLoopNoFlag(Shr7(val), Append(result, Low7(val)))
    ELSE Append(result, Low7(val))

_encode_varint_noflag(val) ==
    EncodeLoopNoFlag(IF IsNeg(val) THEN And32(val) ELSE val, <<>>)

\* the encoder with the masking of lines 48-49 left out
_encode_varint_nomask(val) == EncodeLoop(val, <<>>)

_encode_varint(val) ==
    EncodeLoop(IF IsNeg(val) THEN And32(val) ELSE val, <<>>)

RECURSIVE ShiftGroup(_, _)
\* (b & 0x7F) << shift, shift = 7 * k
ShiftGroup(g, k) == IF k = 0 THEN g ELSE ShiftGroup(Shl7(g), k - 1)

RECURSIVE DecodeLoop(_, _, _, _)
\* reads bytes from Python index i while the continuation bit is set
DecodeLoop(bytes, i, value, k) ==
    IF i >= Len(bytes)
    THEN <<value, i>>
    ELSE LET b == bytes[i + 1]
             v == OrDisjoint(value, ShiftGroup(PyInt(b % 128), k))
         IN IF b >= 128
            THEN DecodeLoop(bytes, i + 1, v, k + 1)
            ELSE <<v, i + 1>>

\* decode_varint(bytes, start_index) -> (value, next_index)
decode_varint(bytes, start) == DecodeLoop(bytes, start, PyInt(0), 0)

\* a limb pair that fits a machine integer, as that integer
ToInt(v) == v.hi * Limb + v.lo

\* key >> 3
Shr3(key) == [hi |-> key.hi \div 8, lo |-> (key.hi % 8) * 8192 + (key.lo \div 8)]

\* key & 0x7
Low3(key) == key.lo % 8

RECURSIVE ParseLoop(_, _, _)
\* the walk of parse_fields from Python index i; fields is the mapping so far
ParseLoop(bytes, i, fields) ==
    IF i >= Len(bytes)
    THEN fields
    ELSE LET k            == decode_varint(bytes, i)
             field_number == ToInt(Shr3(k[1]))
             wire_type    == Low3(k[1])
         IN IF wire_type = 0
            THEN LET v == decode_varint(bytes, k[2])
                 IN ParseLoop(bytes, v[2],
                        [n \in (DOMAIN fields) \cup {field_number} |->
                            IF n = field_number THEN v[1] ELSE fields[n]])
            ELSE IF wire_type = 2
                 THEN LET n == decode_varint(bytes, k[2])
                      IN ParseLoop(bytes, n[2] + ToInt(n[1]), fields)
                 ELSE fields

\* parse_fields(bytes) -> mapping<field_number, value>
parse_fields(bytes) == ParseLoop(bytes, 0, [n \in {} |-> PyInt(0)])

(***************************************************************************)
(* Command encoder                                                         *)
(***************************************************************************)
\* the registry with lcd_light given the number of dev_standby_time
field_config_shared_number ==
    [ en_beep                        |-> <<9, 2>>,
      ac_standby_time                |-> <<10, 3>>,
      dc_standby_time                |-> <<11, 3>>,
      screen_off_time                |-> <<12, 3>>,
      dev_standby_time               |-> <<13, 3>>,
      lcd_light                      |-> <<13, 2>>,
      cfg_dc12v_out_open             |-> <<18, 3>>,
      xboost_en                      |-> <<25, 3>>,
      cms_max_chg_soc                |-> <<33, 3>>,
      cms_min_dsg_soc                |-> <<34, 3>>,
      plug_in_info_ac_in_chg_pow_max |-> <<54, 4>>,
      cfg_ac_out_open                |-> <<76, 3>>,
      plug_in_info_pv_dc_amp_max     |-> <<87, 3>>,
      pv_chg_type                    |-> <<90, 3>>,
      output_power_off_memory        |-> <<141, 3>> ]

\* field_name -> (field_number, default_data_len)
field_config ==
    [ en_beep                        |-> <<9, 2>>,
      ac_standby_time                |-> <<10, 3>>,
      dc_standby_time                |-> <<11, 3>>,
      screen_off_time                |-> <<12, 3>>,
      dev_standby_time               |-> <<13, 3>>,
      lcd_light                      |-> <<14, 2>>,
      cfg_dc12v_out_open             |-> <<18, 3>>,
      xboost_en                      |-> <<25, 3>>,
      cms_max_chg_soc                |-> <<33, 3>>,
      cms_min_dsg_soc                |-> <<34, 3>>,
      plug_in_info_ac_in_chg_pow_max |-> <<54, 4>>,
      cfg_ac_out_open                |-> <<76, 3>>,
      plug_in_info_pv_dc_amp_max     |-> <<87, 3>>,
      pv_chg_type                    |-> <<90, 3>>,
      output_power_off_memory        |-> <<141, 3>> ]

\* the clock cut to its low 32 bits and read as a signed 32-bit integer
SeqOfInt32(now) ==
    LET h == now.hi % Limb
    IN IF h >= 32768 THEN (h - Limb) * Limb + now.lo ELSE h * Limb + now.lo

\* int(time.time() * 1000) % 2147483647, the clock given in limbs.  With
\* hi = h1 * 2^15 + h0 the clock is h1 * 2^31 + (h0 * 2^16 + lo), and 2^31 is 1
\* modulo 2^31 - 1.
SeqOf(now) ==
    LET M  == 2147483647
        h1 == now.hi \div 32768
        a  == ((now.hi % 32768) * Limb + now.lo) % M
        r  == IF h1 >= 0 /\ a >= M - h1 THEN a - (M - h1) ELSE a + h1
    IN IF r < 0 THEN r + M ELSE r

\* the threshold tested with >= in place of >
DynamicDataLenFrom128(field_name, val, default_data_len) ==
    IF field_name = "plug_in_info_ac_in_chg_pow_max"
    THEN (IF val >= 128 THEN 4 ELSE 3)
    ELSE IF field_name \in {"ac_standby_time", "dev_standby_time", "screen_off_time"}
         THEN (IF val >= 128 THEN 3 ELSE 2)
         ELSE default_data_len

\* data_len when the caller gives none
DynamicDataLen(field_name, val, default_data_len) ==
    IF field_name = "plug_in_info_ac_in_chg_pow_max"
    THEN (IF val > 128 THEN 4 ELSE 3)
    ELSE IF field_name \in {"ac_standby_time", "dev_standby_time", "screen_off_time"}
         THEN (IF val > 128 THEN 3 ELSE 2)
         ELSE default_data_len

\* the header with no device_sn set
ProtoCommandHeaderNoSn(device_sn, now, data_len) ==
    [ src |-> 32, dest |-> 2, d_src |-> 1, d_dest |-> 1,
      cmd_func |-> 254, cmd_id |-> 17, need_ack |-> 1,
      seq |-> SeqOf(now), product_id |-> 1, version |-> 19, payload_ver |-> 1,
      device_sn |-> "", data_len |-> data_len ]

\* the header fields of the one message added to the packet
ProtoCommandHeader(device_sn, now, data_len) ==
    [ src |-> 32, dest |-> 2, d_src |-> 1, d_dest |-> 1,
      cmd_func |-> 254, cmd_id |-> 17, need_ack |-> 1,
      seq |-> SeqOf(now), product_id |-> 1, version |-> 19, payload_ver |-> 1,
      device_sn |-> device_sn, data_len |-> data_len ]

\* the key built with wire type 2
FieldKeyLengthDelimited(field_num) == field_num * 8 + 2

\* (field_num << 3) | 0
FieldKey(field_num) == field_num * 8

\* the value emitted before the key
ProtoCommandPdataSwapped(field_num, val) ==
    _encode_varint(PyInt(val)) \o _encode_varint(PyInt(FieldKey(field_num)))

\* pdata: field key (varint) + value (varint)
ProtoCommandPdata(field_num, val) ==
    _encode_varint(PyInt(FieldKey(field_num))) \o _encode_varint(PyInt(val))

\* the packet built for a field of the registry
BuildProtoCommand(field_name, value, device_sn, data_len, now) ==
    LET field_num        == field_config[field_name][1]
        default_data_len == field_config[field_name][2]
        val              == value
        dl               == IF data_len = None
                            THEN DynamicDataLen(field_name, val, default_data_len)
                            ELSE data_len.v
        message          == [pdata |-> ProtoCommandPdata(field_num, val)]
                            @@ ProtoCommandHeader(device_sn, now, dl)
    IN [msg |-> <<message>>]

\* an unknown field answered with a packet that carries no payload
_create_river3_proto_command_unchecked(field_name, value, device_sn, data_len, now) ==
    IF field_name \notin DOMAIN field_config
    THEN [msg |-> <<[pdata |-> <<>>] @@ ProtoCommandHeader(device_sn, now, 0)>>]
    ELSE BuildProtoCommand(field_name, value, device_sn, data_len, now)

_create_river3_proto_command(field_name, value, device_sn, data_len, now) ==
    IF field_name \notin DOMAIN field_config
    THEN None
    ELSE BuildProtoCommand(field_name, value, device_sn, data_len, now)

\* the header fields of the backup command's one message
BackupCommandHeader(device_sn, now) ==
    [ src |-> 32, dest |-> 2, d_src |-> 1, d_dest |-> 1,
      cmd_func |-> 254, cmd_id |-> 17, need_ack |-> 1,
      seq |-> SeqOf(now), product_id |-> 1, version |-> 19, payload_ver |-> 1,
      device_sn |-> device_sn ]

\* the disable branch sending energy_backup_en = 0 instead of leaving it out
BackupInnerExplicitZero(energy_backup_en, energy_backup_start_soc) ==
    IF energy_backup_en # None /\ energy_backup_en.v = 1
    THEN _encode_varint(PyInt(1 * 8)) \o _encode_varint(PyInt(1))
         \o _encode_varint(PyInt(2 * 8)) \o _encode_varint(PyInt(energy_backup_start_soc))
    ELSE _encode_varint(PyInt(1 * 8)) \o _encode_varint(PyInt(0))
         \o _encode_varint(PyInt(2 * 8)) \o _encode_varint(PyInt(energy_backup_start_soc))

\* inner_pdata of the nested cfgEnergyBackup message
BackupInner(energy_backup_en, energy_backup_start_soc) ==
    IF energy_backup_en # None /\ energy_backup_en.v = 1
    THEN _encode_varint(PyInt(1 * 8)) \o _encode_varint(PyInt(1))
         \o _encode_varint(PyInt(2 * 8)) \o _encode_varint(PyInt(energy_backup_start_soc))
    ELSE _encode_varint(PyInt(2 * 8)) \o _encode_varint(PyInt(energy_backup_start_soc))

\* message.data_len of the backup command
BackupDataLen(energy_backup_en) ==
    IF energy_backup_en # None /\ energy_backup_en.v = 1 THEN 7 ELSE 5

\* inner_pdata wrapped in field 43, wire type 2
BackupPdata(inner_pdata) ==
    _encode_varint(PyInt(43 * 8 + 2)) \o _encode_varint(PyInt(Len(inner_pdata)))
    \o inner_pdata

\* the Field Registry reversed: the names a field number stands for
ReverseLookup(field_number) ==
    {name \in DOMAIN field_config : field_config[name][1] = field_number}

_create_river3_energy_backup_command(energy_backup_en, energy_backup_start_soc, device_sn, now) ==
    LET inner_pdata == BackupInner(energy_backup_en, energy_backup_start_soc)
        message     == [pdata |-> BackupPdata(inner_pdata),
                        data_len |-> BackupDataLen(energy_backup_en)]
                       @@ BackupCommandHeader(device_sn, now)
    IN [msg |-> <<message>>]

(***************************************************************************)
(* XOR obfuscation                                                         *)
(***************************************************************************)
RECURSIVE XorNat(_, _)
\* a ^ b for a >= 0 and b >= 0, bit by bit
XorNat(a, b) ==
    IF a = 0 /\ b = 0
    THEN 0
    ELSE (((a % 2) + (b % 2)) % 2) + 2 * XorNat(a \div 2, b \div 2)

\* byte_val ^ seq for a byte and any Python integer seq: a negative seq is
\* ~(-seq - 1), and a ^ ~c is ~(a ^ c)
PyXor(byte_val, seq) ==
    IF seq >= 0
    THEN XorNat(byte_val, seq)
    ELSE -XorNat(byte_val, -seq - 1) - 1

\* the loop body with the & 0xFF left out
XorByteUnmasked(byte_val, seq) == PyXor(byte_val, seq)

\* (byte_val ^ seq) & 0xFF
XorByte(byte_val, seq) == PyXor(byte_val, seq) % 256

_xor_decode_pdata(pdata, seq) ==
    IF Len(pdata) = 0
    THEN <<>>
    ELSE [i \in 1..Len(pdata) |-> XorByte(pdata[i], seq)]

(***************************************************************************)
(* Message decoder of class River3                                         *)
(*                                                                         *)
(* raw_data is held parsed: [kind |-> "envelope", header |-> <<h1, ...>>]  *)
(* for bytes that are a River3HeaderMessage with those headers,            *)
(* [kind |-> "json", obj |-> d] for bytes that are the JSON text of d,     *)
(* [kind |-> "empty"] for the empty byte string (a River3HeaderMessage     *)
(* with no header), and [kind |-> "garbage"] for bytes that are neither a  *)
(* message nor JSON.  A payload (pdata) is                                 *)
(* a byte string.  A Python dict is a function from its keys; a Python     *)
(* value that is no dict is held under its type, as [int |-> 5],           *)
(* [str |-> "s"] or [list |-> <<...>>].                                    *)
(***************************************************************************)
EmptyDict == [k \in {} |-> 0]

IntVal(n) == [int |-> n]

StrVal(s) == [str |-> s]

ListVal(items) == [list |-> items]

\* isinstance(x, int), isinstance(x, str), isinstance(x, list), isinstance(x, dict)
IsInt(x) == DOMAIN x = {"int"}

IsStr(x) == DOMAIN x = {"str"}

IsList(x) == DOMAIN x = {"list"}

IsDict(x) == x # None /\ ~IsInt(x) /\ ~IsStr(x) /\ ~IsList(x)

\* d.get(k)
Get(d, k) == IF k \in DOMAIN d THEN d[k] ELSE None

\* bool(x): None, 0, "", [] and {} are false
Truthy(x) ==
    IF x = None THEN FALSE
    ELSE IF IsInt(x) THEN x.int # 0
    ELSE IF IsStr(x) THEN x.str # ""
    ELSE IF IsList(x) THEN x.list # <<>>
    ELSE x # EmptyDict

\* a or b
Or(a, b) == IF Truthy(a) THEN a ELSE b

\* the schema of River3SetCommand: the registry's numbers and names
SetCommandSchema ==
    [n \in {field_config[f][1] : f \in DOMAIN field_config} |->
        CHOOSE f \in DOMAIN field_config : field_config[f][1] = n]

\* River3SetReply: config_ok is field 2, the settings keep their numbers
SetReplySchema == (2 :> "config_ok") @@ SetCommandSchema

\* River3DisplayPropertyUpload: the settings under the registry's numbers
DisplayPropertySchema == SetCommandSchema

\* River3RuntimePropertyUpload, River3CMSHeartBeatReport and
\* River3BMSHeartBeatReport: the fields the decoder names, under stand-in numbers
RuntimePropertySchema == (1 :> "temp_pcs_dc")

CMSHeartBeatSchema == (1 :> "cms_batt_soc")

BMSHeartBeatSchema == (14 :> "cycles") @@ (79 :> "accu_chg_energy") @@ (80 :> "accu_dsg_energy")

\* msg.ParseFromString(pdata) followed by _protobuf_to_dict(msg): the fields of
\* the payload the schema knows, by name; bool and integer values as integers
ProtoToDict(schema, pdata) ==
    LET fields == parse_fields(pdata)
        known  == (DOMAIN fields) \cap (DOMAIN schema)
    IN [name \in {schema[n] : n \in known} |->
            IntVal(ToInt(fields[CHOOSE n \in known : schema[n] = name]))]

\* no varint is read at Python index i, or the last byte read promises more
VarintCutShort(bytes, i) ==
    LET next == decode_varint(bytes, i)[2]
    IN next = i \/ bytes[next] >= 128

RECURSIVE ParseFails(_, _)
\* msg.ParseFromString(bytes) raises DecodeError from Python index i on: a
\* key, value or length cut short, field number 0, content past the end, a
\* wire type that is none of 0, 1, 2, 5
ParseFails(bytes, i) ==
    IF i >= Len(bytes)
    THEN FALSE
    ELSE IF VarintCutShort(bytes, i)
    THEN TRUE
    ELSE LET k            == decode_varint(bytes, i)
             field_number == ToInt(Shr3(k[1]))
             wire_type    == Low3(k[1])
         IN IF field_number = 0
            THEN TRUE
            ELSE IF wire_type = 0
            THEN \/ VarintCutShort(bytes, k[2])
                 \/ ParseFails(bytes, decode_varint(bytes, k[2])[2])
            ELSE IF wire_type = 2
            THEN \/ VarintCutShort(bytes, k[2])
                 \/ LET n == decode_varint(bytes, k[2])
                    IN \/ n[2] + ToInt(n[1]) > Len(bytes)
                       \/ ParseFails(bytes, n[2] + ToInt(n[1]))
            ELSE IF wire_type = 1
            THEN k[2] + 8 > Len(bytes) \/ ParseFails(bytes, k[2] + 8)
            ELSE IF wire_type = 5
            THEN k[2] + 4 > Len(bytes) \/ ParseFails(bytes, k[2] + 4)
            ELSE TRUE

RECURSIVE DelimitedLoop(_, _, _)
\* the length-delimited fields met from Python index i on, in wire order, each
\* as <<field_number, content>>; varint fields are passed over
DelimitedLoop(bytes, i, found) ==
    IF i >= Len(bytes)
    THEN found
    ELSE LET k            == decode_varint(bytes, i)
             field_number == ToInt(Shr3(k[1]))
             wire_type    == Low3(k[1])
         IN IF wire_type = 0
            THEN DelimitedLoop(bytes, decode_varint(bytes, k[2])[2], found)
            ELSE IF wire_type = 2
                 THEN LET n     == decode_varint(bytes, k[2])
                          start == n[2]
                          size  == ToInt(n[1])
                      IN DelimitedLoop(bytes, start + size,
                            Append(found, <<field_number, SubSeq(bytes, start + 1, start + size)>>))
                 ELSE found

RECURSIVE ContentsOf(_, _)
\* the contents of the occurrences of one length-delimited field, joined: a
\* message field met several times is merged
ContentsOf(found, field_number) ==
    IF found = <<>>
    THEN <<>>
    ELSE (IF found[1][1] = field_number THEN found[1][2] ELSE <<>>)
         \o ContentsOf(Tail(found), field_number)

\* the occurrences of one length-delimited field
Occurrences(bytes, field_number) ==
    SelectSeq(DelimitedLoop(bytes, 0, <<>>), LAMBDA f : f[1] = field_number)

\* River3StatisticsObject: the enum's numbers and names
StatisticsObjectName ==
    (0 :> "STATISTICS_OBJECT_AC_IN_ENERGY")
    @@ (1 :> "STATISTICS_OBJECT_AC_OUT_ENERGY")
    @@ (2 :> "STATISTICS_OBJECT_PV_IN_ENERGY")

\* the fields of one list_info entry: statistics_object (an enum, given by name,
\* or by number when the number has no name) and statistics_content
StatisticsItemToDict(bytes) ==
    LET fields == parse_fields(bytes)
        object == ToInt(fields[2])
    IN (IF 2 \in DOMAIN fields
        THEN ("statistics_object" :>
                IF object \in DOMAIN StatisticsObjectName
                THEN StrVal(StatisticsObjectName[object])
                ELSE IntVal(object))
        ELSE EmptyDict)
       @@ (IF 4 \in DOMAIN fields
           THEN ("statistics_content" :> IntVal(ToInt(fields[4])))
           ELSE EmptyDict)

\* display_statistics_sum: list_info is field 1, repeated; an empty list is
\* left out of the dict
StatisticsSumToDict(bytes) ==
    LET items == Occurrences(bytes, 1)
    IN IF items = <<>>
       THEN EmptyDict
       ELSE ("list_info" :>
                ListVal([i \in 1..Len(items) |-> StatisticsItemToDict(items[i][2])]))

\* the field number of display_statistics_sum in River3DisplayPropertyUpload
StatisticsSumField == 246

\* River3DisplayPropertyUpload as a dict: the settings and, when the payload
\* holds it, display_statistics_sum
DisplayToDict(pdata) ==
    ProtoToDict(DisplayPropertySchema, pdata)
    @@ (IF Occurrences(pdata, StatisticsSumField) = <<>>
        THEN EmptyDict
        ELSE ("display_statistics_sum" :>
                StatisticsSumToDict(
                    ContentsOf(DelimitedLoop(pdata, 0, <<>>), StatisticsSumField))))

\* the header_info dict built from a header: the entries the decoder reads
HeaderInfo(header) ==
    [src |-> header.src, encType |-> header.enc_type,
     cmdFunc |-> header.cmd_func, cmdId |-> header.cmd_id,
     seq |-> header.seq, header_obj |-> header]

\* header_info of the first header, or None when the bytes hold no header
_decode_header_message(raw_data) ==
    IF raw_data.kind # "envelope"
    THEN None
    ELSE IF Len(raw_data.header) = 0
         THEN None
         ELSE HeaderInfo(raw_data.header[1])

_extract_payload_data(header_obj) ==
    IF Len(header_obj.pdata) > 0 THEN Some(header_obj.pdata) ELSE None

\* the gate with the test of the sender's address left out
_perform_xor_decode_any_src(pdata, header_info) ==
    IF header_info.encType = 1
    THEN _xor_decode_pdata(pdata, header_info.seq)
    ELSE pdata

_perform_xor_decode(pdata, header_info) ==
    IF header_info.encType = 1 /\ header_info.src # 32
    THEN _xor_decode_pdata(pdata, header_info.seq)
    ELSE pdata

BMS_HEARTBEAT_COMMANDS ==
    { <<3, 1>>, <<3, 2>>, <<3, 30>>, <<3, 50>>, <<32, 1>>, <<32, 3>>, <<32, 50>>,
      <<32, 51>>, <<32, 52>>, <<254, 24>>, <<254, 25>>, <<254, 26>>, <<254, 27>>,
      <<254, 28>>, <<254, 29>>, <<254, 30>> }

_is_bms_heartbeat(cmd_func, cmd_id) == <<cmd_func, cmd_id>> \in BMS_HEARTBEAT_COMMANDS

\* result.get("config_ok", False) as a truth value
ConfigOkOf(result) == "config_ok" \in DOMAIN result /\ Truthy(result["config_ok"])

\* STATISTICS_OBJECT_AC_OUT_ENERGY -> ac_out_energy: the prefix removed, the
\* rest in lower case; the names with the prefix are its domain
StatisticsFieldName ==
    ("STATISTICS_OBJECT_AC_IN_ENERGY" :> "ac_in_energy")
    @@ ("STATISTICS_OBJECT_AC_OUT_ENERGY" :> "ac_out_energy")
    @@ ("STATISTICS_OBJECT_PV_IN_ENERGY" :> "pv_in_energy")

RECURSIVE ExtractLoop(_, _, _)
\* the for loop of _extract_statistics from item i on
ExtractLoop(data, list_info, i) ==
    IF i > Len(list_info)
    THEN data
    ELSE LET item         == list_info[i]
             stat_obj     == Or(Get(item, "statistics_object"), Get(item, "statisticsObject"))
             stat_content == Or(Get(item, "statistics_content"), Get(item, "statisticsContent"))
             \* the enum name: the string itself, or Name(stat_obj) of an integer
             enum_name    == IF IsStr(stat_obj)
                             THEN Some(stat_obj.str)
                             ELSE IF IsInt(stat_obj) /\ stat_obj.int \in DOMAIN StatisticsObjectName
                                  THEN Some(StatisticsObjectName[stat_obj.int])
                                  ELSE None
             updated      == IF /\ stat_obj # None
                                /\ stat_content # None
                                /\ enum_name # None
                                /\ enum_name.v \in DOMAIN StatisticsFieldName
                             THEN (StatisticsFieldName[enum_name.v] :> stat_content) @@ data
                             ELSE data
         IN ExtractLoop(updated, list_info, i + 1)

_extract_statistics(data) ==
    LET stats_sum == IF "display_statistics_sum" \in DOMAIN data
                     THEN data["display_statistics_sum"]
                     ELSE EmptyDict
        list_info == IF "list_info" \in DOMAIN stats_sum
                     THEN stats_sum["list_info"]
                     ELSE ListVal(<<>>)
    IN IF ~Truthy(list_info)
       THEN data
       ELSE ExtractLoop(data, list_info.list, 1)

\* every branch parses pdata, and a parse that raises ends in return {}
_decode_message_by_type(pdata, header_info) ==
    LET cmd_func == header_info.cmdFunc
        cmd_id   == header_info.cmdId
    IN IF ParseFails(pdata, 0)
       THEN EmptyDict
       ELSE IF cmd_func = 254 /\ cmd_id = 21
       THEN _extract_statistics(DisplayToDict(pdata))
       ELSE IF cmd_func = 254 /\ cmd_id = 22
       THEN ProtoToDict(RuntimePropertySchema, pdata)
       ELSE IF cmd_func = 254 /\ cmd_id = 17
       THEN ProtoToDict(SetCommandSchema, pdata)
       ELSE IF cmd_func = 254 /\ cmd_id = 18
       THEN LET result == ProtoToDict(SetReplySchema, pdata)
            IN IF ConfigOkOf(result) THEN result ELSE EmptyDict
       ELSE IF cmd_func = 32 /\ cmd_id = 2
       THEN ProtoToDict(CMSHeartBeatSchema, pdata)
       ELSE IF _is_bms_heartbeat(cmd_func, cmd_id)
       THEN ProtoToDict(BMSHeartBeatSchema, pdata)
       ELSE LET result == ProtoToDict(BMSHeartBeatSchema, pdata)
            IN IF \/ "cycles" \in DOMAIN result
                  \/ "accu_chg_energy" \in DOMAIN result
                  \/ "accu_dsg_energy" \in DOMAIN result
               THEN result
               ELSE EmptyDict

RECURSIVE FlattenDict(_, _)
\* the items of d under parent_key, a nested dict replaced by its own items;
\* dict(items) keeps one item per key
FlattenDict(d, parent_key) ==
    LET NewKey(k) == IF parent_key # "" THEN parent_key \o "_" \o k ELSE k
        Items(k)  == IF IsDict(d[k])
                     THEN FlattenDict(d[k], NewKey(k))
                     ELSE (NewKey(k) :> d[k])
    IN [nk \in UNION {DOMAIN Items(k) : k \in DOMAIN d} |->
            Items(CHOOSE k \in DOMAIN d : nk \in DOMAIN Items(k))[nk]]

\* _flatten_dict(d) with parent_key "" and sep "_"
_flatten_dict(d) == FlattenDict(d, "")

\* json.loads of the bytes, {} when they are no JSON text
_quiet_json_parse(raw_data) ==
    IF raw_data.kind = "json" THEN raw_data.obj ELSE EmptyDict

\* BaseDevice._prepare_data: the JSON interpretation of the bytes
BasePrepareData(raw_data) == _quiet_json_parse(raw_data)

_prepare_data(raw_data) ==
    LET header_info == _decode_header_message(raw_data)
    IN IF header_info = None
       THEN BasePrepareData(raw_data)
       ELSE LET pdata == _extract_payload_data(header_info.header_obj)
            IN IF pdata = None
               THEN EmptyDict
               ELSE LET decoded_pdata == _perform_xor_decode(pdata.v, header_info)
                        decoded_data  == _decode_message_by_type(decoded_pdata, header_info)
                    IN IF decoded_data = EmptyDict
                       THEN EmptyDict
                       ELSE [params |-> _flatten_dict(decoded_data),
                             all_fields |-> decoded_data]

\* the payload of the reply's header, XOR-decoded in place when enc_type is 1
\* and src is not 32
SetReplyXorDecode(header) ==
    IF header.enc_type = 1 /\ header.src # 32
    THEN _xor_decode_pdata(header.pdata, header.seq)
    ELSE header.pdata

_prepare_set_reply_data(raw_data) ==
    IF raw_data.kind = "envelope" /\ Len(raw_data.header) > 0
                                  /\ Len(raw_data.header[1].pdata) > 0
    THEN LET header == raw_data.header[1]
             pdata  == SetReplyXorDecode(header)
             result == ProtoToDict(SetReplySchema, pdata)
         IN IF ParseFails(pdata, 0)
            THEN _quiet_json_parse(raw_data)
            ELSE [params |-> _flatten_dict(result)]
    ELSE _quiet_json_parse(raw_data)

\* self.data.update_data(raw): the params of raw are merged into the stored ones
DataUpdate(stored, raw) ==
    IF "params" \in DOMAIN raw
    THEN [k \in (DOMAIN stored) \cup (DOMAIN raw.params) |->
            IF k \in DOMAIN raw.params THEN raw.params[k] ELSE stored[k]]
    ELSE stored

(***************************************************************************)
(* Inputs                                                                  *)
(***************************************************************************)
\* low limbs 0..MaxLo are all tried, with the limb's own boundaries
MaxLo == 300

LoValues == (0..MaxLo) \cup {16383, 16384, 32767, 32768, 65535}

\* high limbs: 0, the varint length boundaries 2^21, 2^28 and 2^32, negatives
HiValues == {0, 1, 31, 32, 4095, 4096, 32767, 32768, 65535, 65536, -1, -32768, -65536, -65537}

VarintInputs == {[hi |-> h, lo |-> l] : h \in HiValues, l \in LoValues}

\* command values 0..MaxCmdValue, the varint and data_len boundaries, a negative
MaxCmdValue == 2

CmdValues == (0..MaxCmdValue) \cup {100, 127, 128, 129, 300, 16384, -1}

FieldNameInputs == (DOMAIN field_config) \cup {"energy_backup_en", "bms_batt_soc"}

Serials == {"SN123", "R631ZABCDEFG"}

DataLenInputs == {None, Some(0), Some(2), Some(7)}

BackupEnInputs == {None, Some(0), Some(1), Some(2)}

\* payloads for the XOR transform: every byte string over XorBytes of at most
\* MaxXorLen bytes
MaxXorLen == 2

XorBytes == {0, 1, 90, 127, 128, 255}

XorPayloads == UNION {[1..n -> XorBytes] : n \in 0..MaxXorLen}

\* seq values: below and above 255, the int32 extremes' neighbours, negatives
XorSeqs == {0, 1, 165, 255, 256, 499, 305419896, 2147483647, -1, -256}

\* the serial of this device (self.device_data.sn) and the topics of
\* self.device_info
DeviceSn == "R631ZABCDEFG"

Topics == {"data_topic", "set_topic", "set_reply_topic", "get_topic",
           "get_reply_topic", "other_topic"}

\* what a sender puts into a payload: (field number, value) pairs in wire order
Contents ==
    { <<>>,
      << <<2, 1>>, <<76, 1>> >>,
      << <<2, 0>>, <<76, 1>> >>,
      << <<76, 0>> >> }

RECURSIVE SerializeFields(_)
\* the sender's encoding of the pairs: key varint, value varint, each in turn
SerializeFields(content) ==
    IF content = <<>>
    THEN <<>>
    ELSE _encode_varint(PyInt(content[1][1] * 8)) \o _encode_varint(PyInt(content[1][2]))
         \o SerializeFields(Tail(content))

CommandIds == { <<254, 21>>, <<254, 18>>, <<1, 1>> }

SenderSerials == {"", DeviceSn, "R631ZOTHER000"}

\* the sequence number of the inbound messages: above 255, low byte 0xF3
InboundSeq == 256 + 243

\* one sub-message as sent: plain, or obfuscated with its seq by a sender whose
\* address is not 32
SubMessage(content, cmd, sn, enc_type) ==
    [ src |-> 2, enc_type |-> enc_type, cmd_func |-> cmd[1], cmd_id |-> cmd[2],
      seq |-> InboundSeq, device_sn |-> sn,
      pdata |-> IF enc_type = 1
                THEN _xor_decode_pdata(SerializeFields(content), InboundSeq)
                ELSE SerializeFields(content) ]

Envelopes ==
    { [kind |-> "envelope", header |-> <<SubMessage(c, cmd, sn, e)>>, sent |-> c] :
        c \in Contents, cmd \in CommandIds, sn \in SenderSerials, e \in {0, 1} }

\* the messages that arrive: envelopes, a JSON text, bytes that are neither
RawInputs ==
    Envelopes
    \cup { [kind |-> "json", obj |-> [params |-> [cfg_ac_out_open |-> IntVal(1)]]],
           [kind |-> "garbage"] }

\* envelopes of two status uploads (254, 21) for this device, the second plain
\* or obfuscated; the two may set the same field
MultiContents == { << <<76, 1>> >>, << <<76, 0>> >>, << <<9, 1>> >> }

MultiEnvelopes ==
    { [kind |-> "envelope",
       header |-> << SubMessage(c1, <<254, 21>>, DeviceSn, 0),
                     SubMessage(c2, <<254, 21>>, DeviceSn, e) >>,
       sent |-> c1 \o c2] :
        c1 \in MultiContents, c2 \in MultiContents, e \in {0, 1} }

\* sub-messages of an identity the decoder has no branch for, whose payload
\* sets a field of the battery heartbeat report
HeartBeatContents == { << <<79, 5>> >>, << <<14, 7>> >> }

HeartBeatEnvelopes ==
    { [kind |-> "envelope", header |-> <<SubMessage(c, cmd, DeviceSn, e)>>, sent |-> c] :
        c \in HeartBeatContents, cmd \in { <<1, 1>>, <<3, 1>> }, e \in {0, 1} }

\* a statistics entry as sent: the object's enum number and the content, each
\* set or left out; 9 is a number the enum has no name for
StatEntries ==
    { [object |-> o, content |-> c] :
        o \in {None, Some(0), Some(1), Some(9)}, c \in {None, Some(0), Some(123)} }

\* a statistics list holds at most MaxStats entries
MaxStats == 2

StatLists == UNION { [1..n -> StatEntries] : n \in 0..MaxStats }

\* a length-delimited field as sent: key with wire type 2, length, content
SerializeDelimited(field_number, content) ==
    _encode_varint(PyInt(field_number * 8 + 2)) \o _encode_varint(PyInt(Len(content)))
    \o content

\* one entry: statistics_object is field 2, statistics_content field 4
SerializeStatisticsItem(entry) ==
    (IF entry.object = None THEN <<>> ELSE SerializeFields(<< <<2, entry.object.v>> >>))
    \o (IF entry.content = None THEN <<>> ELSE SerializeFields(<< <<4, entry.content.v>> >>))

RECURSIVE SerializeListInfo(_)
SerializeListInfo(entries) ==
    IF entries = <<>>
    THEN <<>>
    ELSE SerializeDelimited(1, SerializeStatisticsItem(entries[1]))
         \o SerializeListInfo(Tail(entries))

\* a status upload (254, 21) of this device as sent: the settings of content,
\* then display_statistics_sum with the entries
StatisticsSubMessage(content, entries, enc_type) ==
    LET plain == SerializeFields(content)
                 \o SerializeDelimited(StatisticsSumField, SerializeListInfo(entries))
    IN [ src |-> 2, enc_type |-> enc_type, cmd_func |-> 254, cmd_id |-> 21,
         seq |-> InboundSeq, device_sn |-> DeviceSn,
         pdata |-> IF enc_type = 1 THEN _xor_decode_pdata(plain, InboundSeq) ELSE plain ]

StatEnvelopes ==
    { [kind |-> "envelope", header |-> <<StatisticsSubMessage(c, l, e)>>,
       sent |-> c, stats |-> l] :
        c \in { <<>>, << <<76, 1>> >> }, l \in StatLists, e \in {0, 1} }

\* payloads that are no well-formed message: a key with no value, a varint
\* that promises another byte, a 32-bit field cut short after a good field
MalformedPayloads == { <<8>>, <<72, 128>>, <<72, 1, 13, 0>> }

MalformedEnvelopes ==
    { [kind |-> "envelope",
       header |-> << [ src |-> 2, enc_type |-> 0, cmd_func |-> cmd[1], cmd_id |-> cmd[2],
                       seq |-> InboundSeq, device_sn |-> DeviceSn, pdata |-> p ] >>,
       sent |-> <<>>, malformed |-> TRUE] :
        p \in MalformedPayloads, cmd \in CommandIds \cup { <<254, 17>>, <<3, 1>> } }

\* bytes that are no envelope: the empty byte string, and the JSON texts 123
\* and [] (with the JSON object and the garbage of RawInputs)
OtherInputs ==
    { [kind |-> "empty"],
      [kind |-> "json", obj |-> IntVal(123)],
      [kind |-> "json", obj |-> ListVal(<<>>)] }

\* sub-messages from the device (2) and from the controller (32), with
\* encryption type 0, 1 or 2, the payload sent plain or obfuscated with seq
GateEnvelopes ==
    { [kind |-> "envelope",
       header |-> << [ src |-> src, enc_type |-> e, cmd_func |-> cmd[1], cmd_id |-> cmd[2],
                       seq |-> InboundSeq, device_sn |-> DeviceSn,
                       pdata |-> IF obfuscated
                                 THEN _xor_decode_pdata(SerializeFields(c), InboundSeq)
                                 ELSE SerializeFields(c) ] >>,
       sent |-> c, obfuscated |-> obfuscated] :
        src \in {2, 32}, e \in {0, 1, 2}, cmd \in { <<254, 21>>, <<254, 18>> },
        c \in { << <<2, 1>>, <<76, 1>> >>, << <<9, 1>> >> }, obfuscated \in BOOLEAN }

\* the messages the decoders are called on: those of RawInputs and more
DecodeInputs ==
    RawInputs \cup MultiEnvelopes \cup HeartBeatEnvelopes \cup StatEnvelopes
    \cup MalformedEnvelopes \cup OtherInputs \cup GateEnvelopes

\* the reply logs hold at most MaxLog messages each
MaxLog == 1

\* clocks in milliseconds: 0, 1, 2^31 - 2, 2^31 - 1, 2^31, 2^32 - 3, 2^32 - 1,
\* and 1793602780160 (November 2026)
ClockInputs == {[hi |-> 0, lo |-> 0], [hi |-> 0, lo |-> 1],
                [hi |-> 32767, lo |-> 65534], [hi |-> 32767, lo |-> 65535],
                [hi |-> 32768, lo |-> 0],
                [hi |-> 65535, lo |-> 65533], [hi |-> 65535, lo |-> 65535],
                [hi |-> 27368206, lo |-> 31744]}

(***************************************************************************)
(* State                                                                   *)
(***************************************************************************)
Init ==
    /\ call = [op |-> "idle"]
    /\ ret = None
    /\ params = EmptyDict
    /\ set_replies = <<>>
    /\ get_replies = <<>>

DeviceUnchanged == UNCHANGED <<params, set_replies, get_replies>>

\* no call is in progress
Idle == call.op = "idle"

\* the call in progress returns to its caller
Return ==
    /\ ~Idle
    /\ call' = [op |-> "idle"]
    /\ ret' = None
    /\ DeviceUnchanged

\* a call of _encode_varint(val)
EncodeVarint ==
    /\ Idle
    /\ \E v \in VarintInputs :
            /\ call' = [op |-> "_encode_varint", val |-> v]
            /\ ret' = _encode_varint(v)
            /\ DeviceUnchanged

NextVarint == EncodeVarint \/ Return

\* a call of _create_river3_proto_command(field_name, value, device_sn, data_len)
CreateProtoCommand ==
    /\ Idle
    /\ \E f \in FieldNameInputs, v \in CmdValues, sn \in Serials,
          dl \in DataLenInputs, now \in ClockInputs :
            /\ call' = [op |-> "_create_river3_proto_command", field_name |-> f,
                        value |-> v, device_sn |-> sn, data_len |-> dl, now |-> now]
            /\ ret' = _create_river3_proto_command(f, v, sn, dl, now)
            /\ DeviceUnchanged

\* a call of _create_river3_energy_backup_command(en, start_soc, device_sn)
CreateEnergyBackupCommand ==
    /\ Idle
    /\ \E en \in BackupEnInputs, soc \in CmdValues, sn \in Serials, now \in ClockInputs :
            /\ call' = [op |-> "_create_river3_energy_backup_command",
                        energy_backup_en |-> en, energy_backup_start_soc |-> soc,
                        device_sn |-> sn, data_len |-> None, now |-> now]
            /\ ret' = _create_river3_energy_backup_command(en, soc, sn, now)
            /\ DeviceUnchanged

\* a call of _xor_decode_pdata(pdata, seq); round 2 transforms the result of
\* round 1 again with the same seq
XorDecode ==
    /\ Idle
    /\ \E p \in XorPayloads, seq \in XorSeqs :
            /\ call' = [op |-> "_xor_decode_pdata", pdata |-> p, seq |-> seq,
                        round |-> 1, original |-> p]
            /\ ret' = _xor_decode_pdata(p, seq)
            /\ DeviceUnchanged

XorDecodeAgain ==
    /\ call.op = "_xor_decode_pdata"
    /\ call.round = 1
    /\ call' = [call EXCEPT !.pdata = ret, !.round = 2]
    /\ ret' = _xor_decode_pdata(ret, call.seq)
    /\ DeviceUnchanged

NextXor == XorDecode \/ XorDecodeAgain \/ Return

SpecXor == Init /\ [][NextXor]_vars

\* the chain with the set-command echo taken for a set reply
TopicBranchEchoAsReply(data_type) ==
    IF data_type = "data_topic" THEN "data_topic"
    ELSE IF data_type = "set_topic" THEN "set_reply_topic"
    ELSE IF data_type = "set_reply_topic" THEN "set_reply_topic"
    ELSE IF data_type = "get_topic" THEN "get_topic"
    ELSE IF data_type = "get_reply_topic" THEN "get_reply_topic"
    ELSE "else"

\* the if/elif chain of update_data: the topic of self.device_info that
\* data_type equals, tried in the order of the chain, or "else"
TopicBranch(data_type) ==
    IF data_type = "data_topic" THEN "data_topic"
    ELSE IF data_type = "set_topic" THEN "set_topic"
    ELSE IF data_type = "set_reply_topic" THEN "set_reply_topic"
    ELSE IF data_type = "get_topic" THEN "get_topic"
    ELSE IF data_type = "get_reply_topic" THEN "get_reply_topic"
    ELSE "else"

\* a call of update_data(raw_data, data_type)
UpdateData ==
    /\ Idle
    /\ \E raw_data \in RawInputs, data_type \in Topics :
            /\ call' = [op |-> "update_data", raw_data |-> raw_data, data_type |-> data_type]
            /\ IF TopicBranch(data_type) = "data_topic"
               THEN /\ params' = DataUpdate(params, _prepare_data(raw_data))
                    /\ UNCHANGED <<set_replies, get_replies>>
                    /\ ret' = [returned |-> TRUE]
               ELSE IF TopicBranch(data_type) = "set_topic"
               THEN /\ UNCHANGED <<params, set_replies, get_replies>>
                    /\ ret' = [returned |-> TRUE]
               ELSE IF TopicBranch(data_type) = "set_reply_topic"
               THEN LET raw == _prepare_set_reply_data(raw_data)
                    IN /\ Len(set_replies) < MaxLog
                       /\ params' = IF raw # EmptyDict THEN DataUpdate(params, raw) ELSE params
                       /\ set_replies' = Append(set_replies, raw)
                       /\ UNCHANGED get_replies
                       /\ ret' = [returned |-> TRUE]
               ELSE IF TopicBranch(data_type) = "get_topic"
               THEN /\ UNCHANGED <<params, set_replies, get_replies>>
                    /\ ret' = [returned |-> TRUE]
               ELSE IF TopicBranch(data_type) = "get_reply_topic"
               THEN LET raw == _prepare_set_reply_data(raw_data)
                    IN /\ Len(get_replies) < MaxLog
                       /\ params' = IF raw # EmptyDict THEN DataUpdate(params, raw) ELSE params
                       /\ get_replies' = Append(get_replies, raw)
                       /\ UNCHANGED set_replies
                       /\ ret' = [returned |-> TRUE]
               ELSE /\ UNCHANGED <<params, set_replies, get_replies>>
                    /\ ret' = [returned |-> FALSE]

\* a call of _prepare_data(raw_data), raw_data one of inputs
PrepareDataOf(inputs) ==
    /\ Idle
    /\ \E raw_data \in inputs :
            /\ call' = [op |-> "_prepare_data", raw_data |-> raw_data]
            /\ ret' = _prepare_data(raw_data)
            /\ DeviceUnchanged

\* a call of _prepare_set_reply_data(raw_data), raw_data one of inputs
PrepareSetReplyDataOf(inputs) ==
    /\ Idle
    /\ \E raw_data \in inputs :
            /\ call' = [op |-> "_prepare_set_reply_data", raw_data |-> raw_data]
            /\ ret' = _prepare_set_reply_data(raw_data)
            /\ DeviceUnchanged

\* the two decoders called on the messages that update_data is given
PrepareData == PrepareDataOf(RawInputs)

PrepareSetReplyData == PrepareSetReplyDataOf(RawInputs)

\* the two decoders called on every message of DecodeInputs
DecodePrepareData == PrepareDataOf(DecodeInputs)

DecodePrepareSetReplyData == PrepareSetReplyDataOf(DecodeInputs)

Next == UpdateData \/ PrepareData \/ PrepareSetReplyData \/ Return

Spec == Init /\ [][Next]_vars

NextCmd == CreateProtoCommand \/ CreateEnergyBackupCommand \/ Return

SpecCmd == Init /\ [][NextCmd]_vars

SpecVarint == Init /\ [][NextVarint]_vars

NextDecode == DecodePrepareData \/ DecodePrepareSetReplyData \/ Return

SpecDecode == Init /\ [][NextDecode]_vars

(***************************************************************************)
(* C1                                                                      *)
(***************************************************************************)
\* 0 <= v < 2^32
IsU32(v) == v.hi >= 0 /\ v.hi < Limb

\* C1: for every v with 0 <= v < 2^32, decode_varint(_encode_varint(v), 0)
\* is (v, len(_encode_varint(v))); every emitted byte but the last has the
\* 0x80 bit set and the last has it clear.
C1_RoundTrip ==
    (call.op = "_encode_varint" /\ IsU32(call.val)) =>
        /\ Len(ret) >= 1
        /\ decode_varint(ret, 0) = <<call.val, Len(ret)>>
        /\ \A i \in 1..Len(ret) : ret[i] \in 0..255
        /\ \A i \in 1..(Len(ret) - 1) : ret[i] >= 128
        /\ ret[Len(ret)] < 128

\* a five-byte encoding of a value of 2^31 or more has been produced
C1_Witness ==
    /\ call.op = "_encode_varint"
    /\ IsU32(call.val)
    /\ call.val.hi >= 32768
    /\ Len(ret) = 5

(***************************************************************************)
(* C2 .. C7: the command encoder                                           *)
(***************************************************************************)
IsProtoCommand == call.op = "_create_river3_proto_command"

IsBackupCommand == call.op = "_create_river3_energy_backup_command"

InRegistry == call.field_name \in DOMAIN field_config

\* the 7-bit group i of unsigned(v) (v, or v + 2^32 when -2^31 <= v < 0), in
\* machine integers: 2^32 is a multiple of 128^i for i <= 4, and adds nothing
\* to group 0
Group(v, i) ==
    ((v \div (128^i)) + (IF v < 0 /\ i > 0 THEN 2^(32 - 7 * i) ELSE 0)) % 128

\* the number of 7-bit groups of unsigned(v)
Groups(v) ==
    IF v < 0 THEN 5
    ELSE IF v < 128 THEN 1
    ELSE IF v < 16384 THEN 2
    ELSE IF v < 2097152 THEN 3
    ELSE IF v < 268435456 THEN 4
    ELSE 5

\* the varint of unsigned(v) written out: group i, with 0x80 on all but the last
ExpectedVarint(v) ==
    [i \in 1..Groups(v) |-> Group(v, i - 1) + (IF i < Groups(v) THEN 128 ELSE 0)]

\* C2: the command built for a registry field holds exactly one sub-message,
\* with cmd_func 254, cmd_id 17, need_ack 1, src 32, dest 2, product_id 1,
\* version 19, payload_ver 1 and the serial passed in, whatever the field and
\* the value.
C2_FixedRouting ==
    (IsProtoCommand /\ InRegistry) =>
        /\ ret # None
        /\ Len(ret.msg) = 1
        /\ ret.msg[1].cmd_func = 254
        /\ ret.msg[1].cmd_id = 17
        /\ ret.msg[1].need_ack = 1
        /\ ret.msg[1].src = 32
        /\ ret.msg[1].dest = 2
        /\ ret.msg[1].product_id = 1
        /\ ret.msg[1].version = 19
        /\ ret.msg[1].payload_ver = 1
        /\ ret.msg[1].device_sn = call.device_sn

\* a command for the second serial and a two-byte value has been built
C2_Witness ==
    /\ IsProtoCommand
    /\ InRegistry
    /\ call.device_sn = "R631ZABCDEFG"
    /\ call.value = 300
    /\ ret # None
    /\ ret.msg[1].device_sn = "R631ZABCDEFG"

\* C3: for a registry field with number n and a value v, pdata is the varint
\* of (n << 3) | 0 followed by the varint of unsigned(v), and nothing else.
C3_Payload ==
    (IsProtoCommand /\ InRegistry) =>
        ret.msg[1].pdata =
            ExpectedVarint(field_config[call.field_name][1] * 8)
            \o ExpectedVarint(call.value)

\* a negative value has been encoded behind a two-byte key
C3_Witness ==
    /\ IsProtoCommand
    /\ InRegistry
    /\ call.field_name = "cfg_ac_out_open"
    /\ call.value = -1
    /\ Len(ret.msg[1].pdata) = 7

\* C4: a field name with no registry entry yields None, no packet, and None
\* is returned for no registry name: the outcome tells the two apart.
C4_UnknownField ==
    IsProtoCommand => ((~InRegistry) <=> (ret = None))

\* an unknown name has been refused
C4_Witness ==
    /\ IsProtoCommand
    /\ call.field_name = "energy_backup_en"
    /\ ret = None

\* C5: with no explicit data_len, the declared data_len of the sub-message is
\* the number of payload bytes emitted.
C5_DeclaredLenIsActual ==
    ((IsProtoCommand \/ IsBackupCommand) /\ ret # None /\ call.data_len = None) =>
        ret.msg[1].data_len = Len(ret.msg[1].pdata)

\* C6: the backup payload is the varint of (43 << 3) | 2, the varint of
\* len(inner), and inner; inner is field 1 = 1 then field 2 = threshold when
\* energy_backup_en is 1, and field 2 = threshold alone otherwise.
C6_BackupNested ==
    IsBackupCommand =>
        LET soc   == ExpectedVarint(call.energy_backup_start_soc)
            inner == IF call.energy_backup_en = Some(1)
                     THEN <<1 * 8, 1, 2 * 8>> \o soc
                     ELSE <<2 * 8>> \o soc
        IN ret.msg[1].pdata =
            ExpectedVarint(43 * 8 + 2) \o ExpectedVarint(Len(inner)) \o inner

\* a backup command with an enable value that is neither None nor 1
C6_Witness ==
    /\ IsBackupCommand
    /\ call.energy_backup_en = Some(2)
    /\ call.energy_backup_start_soc = 128
    /\ Len(ret.msg[1].pdata) = 6

\* C7: for every registry field and a value among 0, 1, 128, 300, parse_fields
\* of the payload has exactly one entry; its field number stands for the
\* original name in the reversed registry and its value is the original.
C7_ParseRoundTrip ==
    (IsProtoCommand /\ InRegistry /\ call.value \in {0, 1, 128, 300}) =>
        LET fields == parse_fields(ret.msg[1].pdata)
        IN /\ Cardinality(DOMAIN fields) = 1
           /\ \A n \in DOMAIN fields :
                /\ ReverseLookup(n) = {call.field_name}
                /\ fields[n] = PyInt(call.value)

\* the field with the largest number and the value 300 have been recovered
C7_Witness ==
    /\ IsProtoCommand
    /\ call.field_name = "output_power_off_memory"
    /\ call.value = 300
    /\ DOMAIN parse_fields(ret.msg[1].pdata) = {141}

(***************************************************************************)
(* C8: the XOR transform                                                   *)
(***************************************************************************)
\* bit i of n, for n >= 0
Bit(n, i) == (n \div (2^i)) % 2

\* a ^ b on eight bits
Xor8(a, b) ==
    LET D(i) == IF Bit(a, i) = Bit(b, i) THEN 0 ELSE 2^i
    IN D(0) + D(1) + D(2) + D(3) + D(4) + D(5) + D(6) + D(7)

\* C8: each output byte of the XOR transform is the input byte XOR
\* (seq & 0xFF), so the output has the length of the input and bytes in
\* 0..255, and the transform applied twice with the same seq gives back the
\* original payload, for every seq (above 255 and negative too).
C8_XorSelfInverse ==
    (call.op = "_xor_decode_pdata") =>
        /\ Len(ret) = Len(call.pdata)
        /\ \A i \in 1..Len(ret) :
            /\ ret[i] \in 0..255
            /\ ret[i] = Xor8(call.pdata[i], call.seq % 256)
        /\ (call.round = 2 => ret = call.original)

\* a payload has gone through the transform twice with a seq above 255 whose
\* low byte is not zero, and the first pass changed it
C8_Witness ==
    /\ call.op = "_xor_decode_pdata"
    /\ call.round = 2
    /\ call.seq = 499
    /\ Len(call.original) = 2
    /\ call.pdata # call.original
    /\ ret = call.original

(***************************************************************************)
(* C9, C10: the decoder                                                    *)
(***************************************************************************)
\* the reply the sender put into c has config-ok false or absent
ConfigNotOk(c) == \A i \in 1..Len(c) : c[i][1] = 2 => c[i][2] = 0

\* C9: update_data with a reply whose config-ok field is false or absent, on
\* the set-reply or the get-reply topic, leaves the stored parameter data as
\* it was.
C9_RejectedReplyNoChange ==
    [][ ( /\ call'.op = "update_data"
          /\ call'.data_type \in {"set_reply_topic", "get_reply_topic"}
          /\ call'.raw_data.kind = "envelope"
          /\ ConfigNotOk(call'.raw_data.sent) )
        => params' = params ]_vars

\* C10: _prepare_data returns no params for an envelope whose sub-message
\* carries a device serial that is set and is not this device's.
C10_ForeignSerialIgnored ==
    ( /\ call.op = "_prepare_data"
      /\ call.raw_data.kind = "envelope"
      /\ call.raw_data.header[1].device_sn \notin {"", DeviceSn} )
    => ("params" \notin DOMAIN ret \/ DOMAIN ret.params = {})

(***************************************************************************)
(* C11 .. C14: the decoder on envelopes, payloads and other bytes          *)
(***************************************************************************)
IsPrepareData == call.op = "_prepare_data"

IsEnvelope == call.raw_data.kind = "envelope"

\* the fields a sub-message decodes to when it is processed on its own
SubMessageFields(header) ==
    IF Len(header.pdata) = 0
    THEN EmptyDict
    ELSE _decode_message_by_type(
            _perform_xor_decode(header.pdata, HeaderInfo(header)), HeaderInfo(header))

\* C11: for an envelope of several sub-messages, every key a sub-message
\* decodes to is in the params returned by _prepare_data, and its value is
\* the one of the last sub-message that has the key.
C11_LastWriteWins ==
    (IsPrepareData /\ IsEnvelope /\ Len(call.raw_data.header) >= 2) =>
        LET header == call.raw_data.header
        IN \A i \in 1..Len(header) :
            \A k \in DOMAIN SubMessageFields(header[i]) :
                /\ "params" \in DOMAIN ret
                /\ k \in DOMAIN ret.params
                /\ (\A j \in (i + 1)..Len(header) :
                        k \notin DOMAIN SubMessageFields(header[j]))
                   => ret.params[k] = SubMessageFields(header[i])[k]

\* the identities _decode_message_by_type has a branch for
RecognizedCommands ==
    { <<254, 21>>, <<254, 22>>, <<254, 17>>, <<254, 18>>, <<32, 2>> }
    \cup BMS_HEARTBEAT_COMMANDS

\* C12: a sub-message whose (function, id) is not a recognized identity is
\* not decoded: _prepare_data returns the empty mapping whatever its payload.
C12_UnrecognizedEmpty ==
    ( /\ IsPrepareData
      /\ IsEnvelope
      /\ << call.raw_data.header[1].cmd_func, call.raw_data.header[1].cmd_id >>
            \notin RecognizedCommands )
    => ret = EmptyDict

\* the envelope in the call is a status upload sent with a statistics list
HasStats == IsEnvelope /\ "stats" \in DOMAIN call.raw_data

\* C13: for every entry of the statistics list of a (254, 21) payload whose
\* object is a named enum member (the member 0 too) and whose content is a
\* number (0 too), the decoded mapping has the key named after the member,
\* prefix removed and lower-cased, with the content of the last such entry.
C13_StatisticsExpanded ==
    (IsPrepareData /\ HasStats) =>
        LET stats == call.raw_data.stats
        IN \A i \in 1..Len(stats) :
            ( /\ stats[i].object # None
              /\ stats[i].content # None
              /\ stats[i].object.v \in DOMAIN StatisticsObjectName
              /\ \A j \in (i + 1)..Len(stats) : stats[j].object # stats[i].object )
            => LET key == StatisticsFieldName[StatisticsObjectName[stats[i].object.v]]
               IN /\ "params" \in DOMAIN ret
                  /\ key \in DOMAIN ret.params
                  /\ ret.params[key] = IntVal(stats[i].content.v)

\* C14: _prepare_data returns a mapping for every input; for bytes that are
\* no envelope it is the mapping of the fallback interpretation, and for an
\* envelope whose payload is malformed it is the empty mapping.
C14_AlwaysMapping ==
    IsPrepareData =>
        /\ IsDict(ret)
        /\ (~IsEnvelope => ret = BasePrepareData(call.raw_data))
        /\ (IsEnvelope /\ "malformed" \in DOMAIN call.raw_data => ret = EmptyDict)

(***************************************************************************)
(* C15: negative inputs of the varint encoder                              *)
(***************************************************************************)
\* the 7-bit group i of val & 0xFFFFFFFF, from the two limbs
MaskedGroup(val, i) ==
    LET h == val.hi % Limb
        l == val.lo
    IN CASE i = 0 -> l % 128
         [] i = 1 -> (l \div 128) % 128
         [] i = 2 -> (l \div 16384) + (h % 32) * 4
         [] i = 3 -> (h \div 32) % 128
         [] i = 4 -> h \div 4096

\* the number of groups up to the highest that is not zero, at least one
MaskedLen(val) ==
    LET h == val.hi % Limb
        l == val.lo
    IN IF h >= 4096 THEN 5
       ELSE IF h >= 32 THEN 4
       ELSE IF h >= 1 \/ l >= 16384 THEN 3
       ELSE IF l >= 128 THEN 2
       ELSE 1

\* the varint of val & 0xFFFFFFFF written out
MaskedVarint(val) ==
    [i \in 1..MaskedLen(val) |->
        MaskedGroup(val, i - 1) + (IF i < MaskedLen(val) THEN 128 ELSE 0)]

\* C15: for a negative v, _encode_varint(v) is the varint of v & 0xFFFFFFFF,
\* the same bytes as _encode_varint(v & 0xFFFFFFFF), at most 5 of them; a
\* value that is not negative is not masked: below 2^32 the mask changes
\* nothing, and from 2^32 on the bits above bit 31 are still encoded.
C15_NegativeMasked ==
    (call.op = "_encode_varint") =>
        /\ IsNeg(call.val) =>
            /\ ret = MaskedVarint(call.val)
            /\ ret = _encode_varint(And32(call.val))
            /\ Len(ret) <= 5
        /\ IsU32(call.val) => ret = MaskedVarint(call.val)
        /\ call.val.hi >= Limb =>
            /\ Len(ret) >= 5
            /\ ret[5] % 128 >= 16
            /\ ret # _encode_varint(And32(call.val))

\* -1 has been encoded as the five bytes of 2^32 - 1
C15_Witness ==
    /\ call.op = "_encode_varint"
    /\ call.val = [hi |-> -1, lo |-> 65535]
    /\ ret = <<255, 255, 255, 255, 15>>

(***************************************************************************)
(* C16: the XOR gate of the two decode paths                               *)
(***************************************************************************)
\* the payload the decoder is to be handed: each byte XOR (seq & 0xFF) when
\* the encryption type is 1 and the sender is not 32, the received bytes
\* otherwise
GatedPayload(header) ==
    IF header.enc_type = 1 /\ header.src # 32
    THEN [i \in 1..Len(header.pdata) |-> Xor8(header.pdata[i], header.seq % 256)]
    ELSE header.pdata

\* what _prepare_data returns when the payload decoder is handed pdata
PrepareDataOn(pdata, header) ==
    LET decoded_data == _decode_message_by_type(pdata, HeaderInfo(header))
    IN IF decoded_data = EmptyDict
       THEN EmptyDict
       ELSE [params |-> _flatten_dict(decoded_data), all_fields |-> decoded_data]

\* what _prepare_set_reply_data returns when the reply parser is handed pdata
SetReplyOn(pdata) ==
    IF ParseFails(pdata, 0)
    THEN EmptyDict
    ELSE [params |-> _flatten_dict(ProtoToDict(SetReplySchema, pdata))]

\* C16: _prepare_data and _prepare_set_reply_data hand the payload decoder
\* the XOR transform of the payload exactly when the encryption type is 1
\* and the sender is not 32, and the received bytes otherwise (so always
\* when the encryption type is not 1); the two paths never differ on it.
C16_XorGate ==
    ( /\ call.op \in {"_prepare_data", "_prepare_set_reply_data"}
      /\ IsEnvelope
      /\ Len(call.raw_data.header[1].pdata) > 0 )
    => LET header == call.raw_data.header[1]
       IN /\ _perform_xor_decode(header.pdata, HeaderInfo(header)) = GatedPayload(header)
          /\ SetReplyXorDecode(header) = GatedPayload(header)
          /\ header.enc_type # 1 =>
                /\ _perform_xor_decode(header.pdata, HeaderInfo(header)) = header.pdata
                /\ SetReplyXorDecode(header) = header.pdata
          /\ call.op = "_prepare_data" => ret = PrepareDataOn(GatedPayload(header), header)
          /\ call.op = "_prepare_set_reply_data" => ret = SetReplyOn(GatedPayload(header))

\* a status upload from sender 32 with encryption type 1, sent plain, has
\* been decoded from its bytes as received
C16_Witness ==
    /\ IsPrepareData
    /\ IsEnvelope
    /\ call.raw_data.header[1].src = 32
    /\ call.raw_data.header[1].enc_type = 1
    /\ call.raw_data.header[1].cmd_id = 21
    /\ "obfuscated" \in DOMAIN call.raw_data
    /\ ~call.raw_data.obfuscated
    /\ ret # EmptyDict
    /\ ret.params = [en_beep |-> IntVal(1)]

(***************************************************************************)
(* C17: the declared data_len of a single-field command                    *)
(***************************************************************************)
\* C17: a data_len given by the caller is declared as given; with none given,
\* ac_standby_time, dev_standby_time and screen_off_time declare 3 for a
\* value above 128 and 2 up to 128, plug_in_info_ac_in_chg_pow_max declares 4
\* and 3, and every other registry field declares its registry default
\* whatever the value.
C17_DeclaredDataLen ==
    (IsProtoCommand /\ InRegistry) =>
        LET declared == ret.msg[1].data_len
            name     == call.field_name
            value    == call.value
        IN IF call.data_len # None
           THEN declared = call.data_len.v
           ELSE IF name = "plug_in_info_ac_in_chg_pow_max"
           THEN declared = 3 + (IF value > 128 THEN 1 ELSE 0)
           ELSE IF name \in {"ac_standby_time", "dev_standby_time", "screen_off_time"}
           THEN declared = 2 + (IF value > 128 THEN 1 ELSE 0)
           ELSE declared = field_config[name][2]

\* the value 128 itself has been declared with the shorter length
C17_Witness ==
    /\ IsProtoCommand
    /\ call.field_name = "plug_in_info_ac_in_chg_pow_max"
    /\ call.value = 128
    /\ call.data_len = None
    /\ ret.msg[1].data_len = 3

(***************************************************************************)
(* C18: the values of the flattened mapping                                *)
(***************************************************************************)
\* an integer, float, boolean or string: numbers and booleans are held as int
IsScalar(x) == IsInt(x) \/ IsStr(x)

\* C18: every value of the params returned by _prepare_data for a decoded
\* envelope is a scalar, no list and no nested mapping.
C18_ParamsScalar ==
    (IsPrepareData /\ IsEnvelope /\ "params" \in DOMAIN ret) =>
        \A k \in DOMAIN ret.params : IsScalar(ret.params[k])

(***************************************************************************)
(* C19: the sequence number of outbound commands                           *)
(***************************************************************************)
\* now = q * 2147483647 + seq for some q: q * 2^31 + (seq - q) in limbs
IsClockModulo(now, seq) ==
    \E q \in (now.hi \div 32768)..((now.hi \div 32768) + 2) :
        now = [hi |-> q * 32768 + ((seq - q) \div Limb), lo |-> (seq - q) % Limb]

\* C19: the seq of every command built, single-field or backup, is at least
\* 0 and at most 2^31 - 1, and differs from the millisecond clock by a
\* multiple of 2147483647.
C19_SeqRange ==
    ((IsProtoCommand \/ IsBackupCommand) /\ ret # None) =>
        /\ ret.msg[1].seq >= 0
        /\ ret.msg[1].seq <= 2147483647
        /\ IsClockModulo(call.now, ret.msg[1].seq)

\* a backup command built at clock 2^32 - 3 carries the largest seq, 2^31 - 2
C19_Witness ==
    /\ IsBackupCommand
    /\ call.now = [hi |-> 65535, lo |-> 65533]
    /\ ret.msg[1].seq = 2147483646

(***************************************************************************)
(* C20: what update_data leaves alone                                      *)
(***************************************************************************)
\* C20: a call of update_data on the set-command or get-command echo topic
\* returns True, and one on a topic that is none of the five returns False,
\* and each leaves params and both reply logs as they were; a call on the
\* status topic leaves both logs alone; a call on the set-reply topic
\* appends one message to the set-reply log and leaves the get-reply log
\* alone, and a call on the get-reply topic does the converse.
C20_UpdateDataFrame ==
    [][ (call'.op = "update_data") =>
          LET data_type == call'.data_type
          IN /\ data_type \in {"set_topic", "get_topic"} =>
                    /\ UNCHANGED <<params, set_replies, get_replies>>
                    /\ ret' = [returned |-> TRUE]
             /\ data_type \notin {"data_topic", "set_topic", "set_reply_topic",
                                   "get_topic", "get_reply_topic"} =>
                    /\ UNCHANGED <<params, set_replies, get_replies>>
                    /\ ret' = [returned |-> FALSE]
             /\ data_type = "data_topic" =>
                    UNCHANGED <<set_replies, get_replies>>
             /\ data_type = "set_reply_topic" =>
                    /\ Len(set_replies') = Len(set_replies) + 1
                    /\ SubSeq(set_replies', 1, Len(set_replies)) = set_replies
                    /\ UNCHANGED get_replies
             /\ data_type = "get_reply_topic" =>
                    /\ Len(get_replies') = Len(get_replies) + 1
                    /\ SubSeq(get_replies', 1, Len(get_replies)) = get_replies
                    /\ UNCHANGED set_replies
      ]_vars

\* with parameters stored and a message in each log, a message on the
\* set-command echo topic has been handled
C20_Witness ==
    /\ call.op = "update_data"
    /\ call.data_type = "set_topic"
    /\ call.raw_data.kind = "envelope"
    /\ ret = [returned |-> TRUE]
    /\ params # EmptyDict
    /\ Len(set_replies) = 1
    /\ Len(get_replies) = 1

(***************************************************************************)
(* C21: the Field Registry is injective on field numbers                   *)
(***************************************************************************)
\* the wire key of a registry field, as the bytes the encoder writes
KeyBytes(name) == _encode_varint(PyInt(FieldKey(field_config[name][1])))

\* the number of the nested energy backup group
BackupGroupNumber == 43

\* C21: no two settable field names of the Field Registry have the same field
\* number and none has 43, the number of the nested backup group.  So when a
\* command for a registry field has been built, its payload starts with that
\* field's key, every other field name has another number, another key and,
\* for the same value, another payload, and the field's number is not 43;
\* and the number 43 written by the backup command stands for no settable
\* field name.
C21_RegistryInjective ==
    /\ (IsProtoCommand /\ InRegistry) =>
        LET pdata == ret.msg[1].pdata
            name  == call.field_name
            key   == KeyBytes(name)
        IN /\ Len(pdata) > Len(key)
           /\ SubSeq(pdata, 1, Len(key)) = key
           /\ field_config[name][1] # BackupGroupNumber
           /\ \A other \in (DOMAIN field_config) \ {name} :
                /\ field_config[other][1] # field_config[name][1]
                /\ KeyBytes(other) # key
                /\ ProtoCommandPdata(field_config[other][1], call.value) # pdata
    /\ (IsBackupCommand /\ ret # None) =>
        /\ ToInt(Shr3(decode_varint(ret.msg[1].pdata, 0)[1])) = BackupGroupNumber
        /\ ReverseLookup(BackupGroupNumber) = {}

\* a command for lcd_light, whose number 14 follows that of dev_standby_time,
\* has been built with the one-byte key 112
C21_Witness ==
    /\ IsProtoCommand
    /\ call.field_name = "lcd_light"
    /\ call.value = 1
    /\ ret # None
    /\ ret.msg[1].pdata = <<112, 1>>

====
